---- MODULE Spec2Model ----
(***************************************************************************)
(* The chat front end of ai_publicist: the App component (connectivity,    *)
(* health probing, the message log, the pending flag), the chat API client *)
(* and the input area that gates submissions.                              *)
(*                                                                         *)
(* React semantics kept by the model:                                      *)
(*  - a state setter takes effect, and the component re-renders, in the    *)
(*    step that calls it;                                                  *)
(*  - the effect of App (deps [isConnected, isReconnecting]) runs as a     *)
(*    step of its own after a render in which a dependency changed;        *)
(*  - an async callback reads the values of the render that created it     *)
(*    (its closure), not the current state, after its await.               *)
(* Texts are sequences of one-character strings; a fixed text of the       *)
(* program (an error string, a welcome message) is a one-element sequence  *)
(* holding its name.                                                       *)
(***************************************************************************)
EXTENDS Integers, Sequences, FiniteSets, TLC

VARIABLES
  messages,              \* App: useState([])
  isConnected,           \* App: useState(false)
  isWaitingForResponse,  \* App: useState(false)
  isReconnecting,        \* App: useState(false)
  connectionError,       \* App: useState(null)
  chatClientRef,         \* App: chatClientRef.current is set
  input,                 \* RetroDevice: useState('')
  effectDeps,            \* the dependency values the effect last ran with
  healthCheckInterval,   \* the active interval and the closure of its callback
  initProbes,            \* checkHealth calls of initializeClient in flight
  pollProbes,            \* checkHealth calls of the interval callback in flight
  sendsInFlight,         \* chatClient.sendMessage calls in flight
  sessionId,             \* chatApi: let sessionId of the created client
  localStorage,          \* localStorage: the value under 'chat_session_id'
  connectionStatus,      \* MessageDisplay: the connectionStatus prop
  errorMessage,          \* MessageDisplay: useState(null)
  expandedBlocks,        \* MessageDisplay: useState({})
  initSettled,           \* history: some initializeClient run has finished
  lastOp                 \* history: the handler that ran last, and its case

vars == <<messages, isConnected, isWaitingForResponse, isReconnecting,
          connectionError, chatClientRef, input, effectDeps,
          healthCheckInterval, initProbes, pollProbes, sendsInFlight,
          sessionId, localStorage, connectionStatus, errorMessage,
          expandedBlocks, initSettled, lastOp>>

\* The prop and the state of MessageDisplay.
viewVars == <<connectionStatus, errorMessage, expandedBlocks>>

(***************************************************************************)
(* Bounds of the model.                                                    *)
(***************************************************************************)
MaxProbes == 2   \* health probes in flight at once
MaxLog == 3      \* a submission is modelled while the log is shorter
MaxPieces == 4   \* pieces a free text is put together from
MaxBlocks == 2   \* fenced blocks of a generated document
MaxViewLog == 2  \* messages of a log given to MessageDisplay on its own

(***************************************************************************)
(* Constants of the program.                                               *)
(***************************************************************************)
NULL == "null"
UNDEFINED == "undefined"

\* MessageDisplay: a code block of more lines than this is too long.
MaxShownLines == 10

ERROR_MESSAGES ==
  [GENERAL |-> <<"ERROR_MESSAGES.GENERAL">>,
   DISCONNECTED |-> <<"ERROR_MESSAGES.DISCONNECTED">>,
   TIMEOUT |-> <<"ERROR_MESSAGES.TIMEOUT">>]

WELCOME_MESSAGES == {<<"WELCOME_MESSAGES[0]">>, <<"WELCOME_MESSAGES[1]">>}

\* What the user can have typed, and what the service can reply.
InputTexts == {<<>>, <<" ">>, <<"h", "i">>}
ReplyContents == {<<"o", "k">>, <<"n", "o">>}

\* The session ids the service can issue.
SessionIds == {"s1", "s2"}

IsSpace(c) == c \in {" ", "\n", "\t"}

\* String.prototype.trim
RECURSIVE TrimStart(_)
TrimStart(s) ==
  IF s # <<>> /\ IsSpace(Head(s)) THEN TrimStart(Tail(s)) ELSE s

RECURSIVE TrimEnd(_)
TrimEnd(s) ==
  IF s # <<>> /\ IsSpace(s[Len(s)]) THEN TrimEnd(SubSeq(s, 1, Len(s) - 1)) ELSE s

\* Mutant of Trim: nothing is trimmed.
TrimNothing(s) == s

Trim(s) == TrimEnd(TrimStart(s))

\* JavaScript truthiness of a string
Truthy(s) == s # <<>>

UserMessage(content) == [type |-> "user", content |-> content]
AssistantMessage(content) == [type |-> "assistant", content |-> content]

ProbesInFlight == initProbes[TRUE] + initProbes[FALSE]
                  + pollProbes[TRUE] + pollProbes[FALSE]

\* text is the reply content of a settled send, empty for every other handler.
\* detail is the session_id of a settled send's reply, the transport
\* outcome of a settled health probe and the request body of an accepted
\* submission.
OpWith(name, arg, text, detail) ==
  [op |-> name, arg |-> arg, text |-> text, detail |-> detail]

Op(name, arg, text) == OpWith(name, arg, text, "")

(***************************************************************************)
(* chatApi.js                                                              *)
(***************************************************************************)
\* What the health endpoint can do: answer {status:'ok'}, answer
\* {status:'error'}, answer with a non-2xx status, or fail in transport.
HealthOutcomes == {"ok", "error", "http", "network"}

\* Mutant of checkHealth: a failure is thrown to the caller.
checkHealthRethrows(outcome) ==
  IF outcome \in {"http", "network"}
  THEN [threw |-> TRUE, status |-> "error"]
  ELSE [threw |-> FALSE, status |-> outcome]

\* checkHealth: every failure is caught and returned as {status:'error'}.
checkHealth(outcome) ==
  IF outcome \in {"http", "network"}
  THEN [threw |-> FALSE, status |-> "error"]
  ELSE [threw |-> FALSE, status |-> outcome]

\* What the chat endpoint can do: reply with content, reply without
\* content, answer non-2xx, fail in transport, or exceed the abort timeout.
\* A reply may carry a session_id.
SendOutcomes ==
  [kind : {"reply"}, content : ReplyContents \cup {<<>>},
   session_id : SessionIds \cup {NULL}]
  \cup [kind : {"http", "network", "timeout"}, content : {<<>>},
        session_id : {NULL}]

\* Mutant of createChatClient: the client starts without a token.
createChatClientWithoutStore == NULL

\* createChatClient: localStorage.getItem('chat_session_id') || null
createChatClient == localStorage

\* Mutant of storeSessionId: the id is kept in memory and not persisted.
storeSessionIdInMemoryOnly(outcome) ==
  IF outcome.kind = "reply" /\ outcome.session_id # NULL
  THEN [sessionId |-> outcome.session_id, localStorage |-> localStorage]
  ELSE [sessionId |-> sessionId, localStorage |-> localStorage]

\* Mutant of storeSessionId: the reply's session_id is stored untested.
storeSessionIdUntested(outcome) ==
  IF outcome.kind = "reply"
  THEN [sessionId |-> outcome.session_id,
        localStorage |-> outcome.session_id]
  ELSE [sessionId |-> sessionId, localStorage |-> localStorage]

\* chatClient.sendMessage, "Store session ID": a reply that carries a
\* session_id overwrites the token and persists it; a thrown error is
\* rethrown before this point.
storeSessionId(outcome) ==
  IF outcome.kind = "reply" /\ outcome.session_id # NULL
  THEN [sessionId |-> outcome.session_id,
        localStorage |-> outcome.session_id]
  ELSE [sessionId |-> sessionId, localStorage |-> localStorage]

\* error.message of what chatClient.sendMessage throws: the Error of a
\* non-2xx answer, the TypeError of fetch, the TimeoutError of the signal.
TransportErrors ==
  [http |-> <<"API error: ${response.status}">>,
   network |-> <<"TypeError: Failed to fetch">>,
   timeout |-> <<"TimeoutError">>]

\* Mutant of requestBody: no token is sent.
requestBodyWithoutSession(message) ==
  [message |-> message, session_id |-> NULL]

\* chatClient.sendMessage: the body of the POST, made when the call starts.
requestBody(message) == [message |-> message, session_id |-> sessionId]

\* chatClient.sendMessage: returns the reply, rethrows every failure.
chatApiSendMessage(outcome) ==
  IF outcome.kind = "reply"
  THEN [threw |-> FALSE, content |-> outcome.content, message |-> <<>>]
  ELSE [threw |-> TRUE, content |-> <<>>,
        message |-> TransportErrors[outcome.kind]]

\* Mutant of resetSession: the persisted entry is left in place.
resetSessionInMemoryOnly == [sessionId |-> NULL, localStorage |-> localStorage]

\* chatClient.resetSession
resetSession == [sessionId |-> NULL, localStorage |-> NULL]

(***************************************************************************)
(* Init: the state after the first render of App, before its effect ran.   *)
(* The store may hold the token of an earlier run; no client exists yet.   *)
(***************************************************************************)
Init ==
  /\ messages = <<>>
  /\ isConnected = FALSE
  /\ isWaitingForResponse = FALSE
  /\ isReconnecting = FALSE
  /\ connectionError = NULL
  /\ chatClientRef = FALSE
  /\ input = <<>>
  /\ effectDeps = <<>>
  /\ healthCheckInterval =
       [active |-> FALSE, isConnected |-> FALSE, isReconnecting |-> FALSE]
  /\ initProbes = [e \in BOOLEAN |-> 0]
  /\ pollProbes = [c \in BOOLEAN |-> 0]
  /\ sendsInFlight = 0
  /\ sessionId = NULL
  /\ localStorage \in {NULL, "s1"}
  /\ connectionStatus = UNDEFINED
  /\ errorMessage = <<>>
  /\ expandedBlocks = <<>>
  /\ initSettled = FALSE
  /\ lastOp = Op("mount", "", <<>>)

(***************************************************************************)
(* App: the effect. It runs after the first render and after every render  *)
(* in which isConnected or isReconnecting changed. The cleanup of the      *)
(* previous run clears its interval; the run starts initializeClient (up   *)
(* to its await) and creates a new interval. Both callbacks close over the *)
(* render's isConnected, isReconnecting and messages.                      *)
(***************************************************************************)
EffectPending == effectDeps # <<isConnected, isReconnecting>>

RunEffect ==
  /\ EffectPending
  /\ ProbesInFlight < MaxProbes
  /\ isReconnecting' = TRUE
  /\ chatClientRef' = TRUE
  /\ sessionId' = IF chatClientRef THEN sessionId ELSE createChatClient
  /\ initProbes' = [initProbes EXCEPT ![Len(messages) = 0] = @ + 1]
  /\ healthCheckInterval' =
       [active |-> TRUE, isConnected |-> isConnected,
        isReconnecting |-> isReconnecting]
  /\ effectDeps' = <<isConnected, isReconnecting>>
  /\ lastOp' = Op("effect", "", <<>>)
  /\ UNCHANGED <<messages, isConnected, isWaitingForResponse, connectionError,
                 input, pollProbes, sendsInFlight, localStorage, initSettled,
                 viewVars>>

(***************************************************************************)
(* App: initializeClient after its await. noMessages is the closure's      *)
(* messages.length === 0.                                                  *)
(***************************************************************************)
\* Mutant of initializeClientResume: a failed probe is shown as a message.
initializeClientResumeShowsFailure(noMessages, health, welcomeMessage) ==
  IF ~health.threw /\ health.status = "ok"
  THEN [isConnected |-> TRUE, connectionError |-> NULL,
        messages |-> IF noMessages
                     THEN <<AssistantMessage(welcomeMessage)>>
                     ELSE messages]
  ELSE [isConnected |-> FALSE, connectionError |-> "error",
        messages |-> Append(messages,
                            AssistantMessage(ERROR_MESSAGES.GENERAL))]

\* Mutant of initializeClientResume: a failed probe records the error and
\* leaves isConnected as it was.
initializeClientResumeKeepsConnection(noMessages, health, welcomeMessage) ==
  IF ~health.threw /\ health.status = "ok"
  THEN [isConnected |-> TRUE, connectionError |-> NULL,
        messages |-> IF noMessages
                     THEN <<AssistantMessage(welcomeMessage)>>
                     ELSE messages]
  ELSE [isConnected |-> isConnected, connectionError |-> "error",
        messages |-> messages]

\* Mutant of initializeClientResume: a probe that returned ok clears the
\* error and leaves isConnected as it was.
initializeClientResumeForgetsConnected(noMessages, health, welcomeMessage) ==
  IF ~health.threw /\ health.status = "ok"
  THEN [isConnected |-> isConnected, connectionError |-> NULL,
        messages |-> IF noMessages
                     THEN <<AssistantMessage(welcomeMessage)>>
                     ELSE messages]
  ELSE [isConnected |-> FALSE, connectionError |-> "error",
        messages |-> messages]

initializeClientResume(noMessages, health, welcomeMessage) ==
  IF ~health.threw /\ health.status = "ok"
  THEN [isConnected |-> TRUE, connectionError |-> NULL,
        messages |-> IF noMessages
                     THEN <<AssistantMessage(welcomeMessage)>>
                     ELSE messages]
  ELSE [isConnected |-> FALSE, connectionError |-> "error",
        messages |-> messages]

InitProbeSettles ==
  \E noMessages \in BOOLEAN, outcome \in HealthOutcomes,
     welcomeMessage \in WELCOME_MESSAGES :
    /\ initProbes[noMessages] > 0
    /\ LET r == initializeClientResume(noMessages, checkHealth(outcome),
                                       welcomeMessage)
       IN /\ isConnected' = r.isConnected
          /\ connectionError' = r.connectionError
          /\ messages' = r.messages
    /\ isReconnecting' = FALSE
    /\ initProbes' = [initProbes EXCEPT ![noMessages] = @ - 1]
    /\ initSettled' = TRUE
    /\ lastOp' = OpWith("initProbe", checkHealth(outcome).status, <<>>,
                        outcome)
    /\ UNCHANGED <<isWaitingForResponse, chatClientRef, input, effectDeps,
                   healthCheckInterval, pollProbes, sendsInFlight, sessionId,
                   localStorage,
                 viewVars>>

(***************************************************************************)
(* App: the interval callback, up to its await and after it.               *)
(***************************************************************************)
IntervalStartsProbe ==
  chatClientRef /\ ~healthCheckInterval.isReconnecting

IntervalTick ==
  /\ healthCheckInterval.active
  /\ IF IntervalStartsProbe
     THEN /\ ProbesInFlight < MaxProbes
          /\ pollProbes' =
               [pollProbes EXCEPT ![healthCheckInterval.isConnected] = @ + 1]
          /\ lastOp' = Op("tick", "probe", <<>>)
     ELSE /\ pollProbes' = pollProbes
          /\ lastOp' = Op("tick", "skip", <<>>)
  /\ UNCHANGED <<messages, isConnected, isWaitingForResponse, isReconnecting,
                 connectionError, chatClientRef, input, effectDeps,
                 healthCheckInterval, initProbes, sendsInFlight, sessionId,
                 localStorage, initSettled,
                 viewVars>>

\* Mutant of intervalResume: a reconnection leaves connectionError in place.
intervalResumeKeepsError(closureConnected, health) ==
  IF health.threw
  THEN IF closureConnected
       THEN [isConnected |-> FALSE, connectionError |-> "error"]
       ELSE [isConnected |-> isConnected, connectionError |-> connectionError]
  ELSE IF health.status # "ok" /\ closureConnected
       THEN [isConnected |-> FALSE, connectionError |-> "disconnected"]
       ELSE IF health.status = "ok" /\ ~closureConnected
            THEN [isConnected |-> TRUE, connectionError |-> connectionError]
            ELSE [isConnected |-> isConnected,
                  connectionError |-> connectionError]

\* closureConnected is the isConnected the callback closed over.
intervalResume(closureConnected, health) ==
  IF health.threw
  THEN IF closureConnected
       THEN [isConnected |-> FALSE, connectionError |-> "error"]
       ELSE [isConnected |-> isConnected, connectionError |-> connectionError]
  ELSE IF health.status # "ok" /\ closureConnected
       THEN [isConnected |-> FALSE, connectionError |-> "disconnected"]
       ELSE IF health.status = "ok" /\ ~closureConnected
            THEN [isConnected |-> TRUE, connectionError |-> NULL]
            ELSE [isConnected |-> isConnected,
                  connectionError |-> connectionError]

PollProbeSettles ==
  \E closureConnected \in BOOLEAN, outcome \in HealthOutcomes :
    /\ pollProbes[closureConnected] > 0
    /\ LET r == intervalResume(closureConnected, checkHealth(outcome))
       IN /\ isConnected' = r.isConnected
          /\ connectionError' = r.connectionError
    /\ pollProbes' = [pollProbes EXCEPT ![closureConnected] = @ - 1]
    /\ lastOp' = OpWith("pollProbe", checkHealth(outcome).status, <<>>,
                        outcome)
    /\ UNCHANGED <<messages, isWaitingForResponse, isReconnecting,
                   chatClientRef, input, effectDeps, healthCheckInterval,
                   initProbes, sendsInFlight, sessionId, localStorage,
                   initSettled,
                 viewVars>>

(***************************************************************************)
(* InputArea: the text field and the send button are disabled by these     *)
(* conditions; handleKeyPress tests isDisabled itself.                     *)
(***************************************************************************)
\* Mutants of isDisabled: a gate that forgets one of its conditions.
isDisabledIgnoringConnection == isWaitingForResponse \/ isReconnecting
isDisabledIgnoringPending == ~isConnected \/ isReconnecting

isDisabled == ~isConnected \/ isWaitingForResponse \/ isReconnecting

buttonDisabled ==
  ~isConnected \/ ~Truthy(Trim(input)) \/ isWaitingForResponse \/ isReconnecting

\* TextField onChange: the user edits the text.
SetInput ==
  \E text \in InputTexts :
    /\ ~isDisabled
    /\ input' = text
    /\ lastOp' = Op("setInput", "", <<>>)
    /\ UNCHANGED <<messages, isConnected, isWaitingForResponse,
                   isReconnecting, connectionError, chatClientRef, effectDeps,
                   healthCheckInterval, initProbes, pollProbes, sendsInFlight,
                   sessionId, localStorage, initSettled,
                 viewVars>>

(***************************************************************************)
(* App: sendMessage up to its await. A rejected call only sets the error;  *)
(* an accepted one appends the user message, raises the pending flag and   *)
(* calls chatClient.sendMessage.                                           *)
(***************************************************************************)
sendMessageRejects == ~chatClientRef \/ ~isConnected

sendMessage(content, gesture) ==
  IF sendMessageRejects
  THEN /\ connectionError' = "disconnected"
       /\ lastOp' = Op(gesture, "disconnected", <<>>)
       /\ UNCHANGED <<messages, isWaitingForResponse, sendsInFlight>>
  ELSE /\ Len(messages) + 2 <= MaxLog
       /\ messages' = Append(messages, UserMessage(content))
       /\ isWaitingForResponse' = TRUE
       /\ sendsInFlight' = sendsInFlight + 1
       /\ lastOp' = OpWith(gesture, "sent", <<>>, requestBody(content))
       /\ UNCHANGED connectionError

\* RetroDevice: handleSubmit.
handleSubmit(gesture) ==
  IF Truthy(Trim(input))
  THEN /\ sendMessage(input, gesture)
       /\ input' = <<>>
  ELSE /\ lastOp' = Op(gesture, "blank", <<>>)
       /\ UNCHANGED <<messages, isWaitingForResponse, sendsInFlight,
                      connectionError, input>>

\* InputArea: handleKeyPress for Enter without Shift.
HandleKeyPress ==
  /\ IF ~isDisabled
     THEN handleSubmit("keyPress")
     ELSE /\ lastOp' = Op("keyPress", "disabled", <<>>)
          /\ UNCHANGED <<messages, isWaitingForResponse, sendsInFlight,
                         connectionError, input>>
  /\ UNCHANGED <<isConnected, isReconnecting, chatClientRef, effectDeps,
                 healthCheckInterval, initProbes, pollProbes, sessionId,
                 localStorage, initSettled,
                 viewVars>>

\* InputArea: a click on the send button.
ButtonClick ==
  /\ IF ~buttonDisabled
     THEN handleSubmit("click")
     ELSE /\ lastOp' = Op("click", "disabled", <<>>)
          /\ UNCHANGED <<messages, isWaitingForResponse, sendsInFlight,
                         connectionError, input>>
  /\ UNCHANGED <<isConnected, isReconnecting, chatClientRef, effectDeps,
                 healthCheckInterval, initProbes, pollProbes, sessionId,
                 localStorage, initSettled,
                 viewVars>>

(***************************************************************************)
(* App: sendMessage after its await.                                       *)
(***************************************************************************)
\* Mutant of sendMessageResume: the test of response.content is inverted.
sendMessageResumeInverted(response) ==
  IF ~response.threw /\ ~Truthy(response.content)
  THEN [connectionError |-> connectionError,
        message |-> AssistantMessage(response.content)]
  ELSE [connectionError |-> "error",
        message |-> AssistantMessage(ERROR_MESSAGES.GENERAL)]

\* Mutant of sendMessageResume: a reply is shown without testing its content,
\* and a failure is shown as an empty reply.
sendMessageResumeUnchecked(response) ==
  [connectionError |-> IF response.threw THEN "error" ELSE connectionError,
   message |-> AssistantMessage(response.content)]

\* Mutant of sendMessageResume: the catch branch shows error.message.
sendMessageResumeShowsError(response) ==
  IF ~response.threw /\ Truthy(response.content)
  THEN [connectionError |-> connectionError,
        message |-> AssistantMessage(response.content)]
  ELSE [connectionError |-> "error",
        message |-> AssistantMessage(IF response.threw THEN response.message
                                     ELSE ERROR_MESSAGES.GENERAL)]

sendMessageResume(response) ==
  IF ~response.threw /\ Truthy(response.content)
  THEN [connectionError |-> connectionError,
        message |-> AssistantMessage(response.content)]
  ELSE [connectionError |-> "error",
        message |-> AssistantMessage(ERROR_MESSAGES.GENERAL)]

OutcomeName(outcome) ==
  IF outcome.kind # "reply" THEN outcome.kind
  ELSE IF Truthy(outcome.content) THEN "reply" ELSE "empty"

\* Mutant of SendSettles: a send that fails marks the App disconnected.
SendSettlesDisconnectsOnError ==
  \E outcome \in SendOutcomes :
    /\ sendsInFlight > 0
    /\ LET r == sendMessageResume(chatApiSendMessage(outcome))
       IN /\ connectionError' = r.connectionError
          /\ messages' = Append(messages, r.message)
          /\ isConnected' = (isConnected /\ r.connectionError # "error")
    /\ LET t == storeSessionId(outcome)
       IN /\ sessionId' = t.sessionId
          /\ localStorage' = t.localStorage
    /\ isWaitingForResponse' = FALSE
    /\ sendsInFlight' = sendsInFlight - 1
    /\ lastOp' = OpWith("send", OutcomeName(outcome), outcome.content,
                        outcome.session_id)
    /\ UNCHANGED <<isReconnecting, chatClientRef, input, effectDeps,
                   healthCheckInterval, initProbes, pollProbes, initSettled,
                   viewVars>>

\* Mutant of SendSettles: the catch branch leaves isWaitingForResponse set.
SendSettlesKeepsWaitingOnError ==
  \E outcome \in SendOutcomes :
    /\ sendsInFlight > 0
    /\ LET r == sendMessageResume(chatApiSendMessage(outcome))
       IN /\ connectionError' = r.connectionError
          /\ messages' = Append(messages, r.message)
    /\ LET t == storeSessionId(outcome)
       IN /\ sessionId' = t.sessionId
          /\ localStorage' = t.localStorage
    /\ isWaitingForResponse' =
         (chatApiSendMessage(outcome).threw /\ isWaitingForResponse)
    /\ sendsInFlight' = sendsInFlight - 1
    /\ lastOp' = OpWith("send", OutcomeName(outcome), outcome.content,
                        outcome.session_id)
    /\ UNCHANGED <<isConnected, isReconnecting, chatClientRef, input,
                   effectDeps, healthCheckInterval, initProbes, pollProbes,
                   initSettled,
                 viewVars>>

SendSettles ==
  \E outcome \in SendOutcomes :
    /\ sendsInFlight > 0
    /\ LET r == sendMessageResume(chatApiSendMessage(outcome))
       IN /\ connectionError' = r.connectionError
          /\ messages' = Append(messages, r.message)
    /\ LET t == storeSessionId(outcome)
       IN /\ sessionId' = t.sessionId
          /\ localStorage' = t.localStorage
    /\ isWaitingForResponse' = FALSE
    /\ sendsInFlight' = sendsInFlight - 1
    /\ lastOp' = OpWith("send", OutcomeName(outcome), outcome.content,
                        outcome.session_id)
    /\ UNCHANGED <<isConnected, isReconnecting, chatClientRef, input,
                   effectDeps, healthCheckInterval, initProbes, pollProbes,
                   initSettled,
                 viewVars>>

(***************************************************************************)
(* chatApi: resetSession, an operation of the client's interface. No       *)
(* component of the front end calls it; its caller is whoever holds the    *)
(* client.                                                                 *)
(***************************************************************************)
ResetSession ==
  /\ chatClientRef
  /\ sessionId' = resetSession.sessionId
  /\ localStorage' = resetSession.localStorage
  /\ lastOp' = Op("reset", IF sessionId # NULL THEN "token" ELSE "none", <<>>)
  /\ UNCHANGED <<messages, isConnected, isWaitingForResponse, isReconnecting,
                 connectionError, chatClientRef, input, effectDeps,
                 healthCheckInterval, initProbes, pollProbes, sendsInFlight,
                 initSettled,
                 viewVars>>

(***************************************************************************)
(* MessageDisplay: what is rendered. RetroDevice passes no                 *)
(* connectionStatus, so under App the prop is undefined and errorMessage   *)
(* stays null (the empty text here). expandedBlocks is a function from     *)
(* the blockIds toggled so far to booleans.                                *)
(***************************************************************************)
\* The effect on [connectionStatus]: the error text of a status.
errorMessageFor(status) ==
  IF status = "error" THEN ERROR_MESSAGES.GENERAL
  ELSE IF status = "disconnected" THEN ERROR_MESSAGES.DISCONNECTED
  ELSE IF status = "timeout" THEN ERROR_MESSAGES.TIMEOUT
  ELSE <<>>

TypingIndicator == [type |-> "typing", id |-> "typing-indicator"]

(***************************************************************************)
(* MessageDisplay: formatMessage. Positions are those of JavaScript        *)
(* (lastIndex and match.index count the characters before), kept as        *)
(* numbers; SubSeq is 1-based.                                             *)
(***************************************************************************)
\* The backquote character, written by name.
Backquote == "BACKQUOTE"
Fence == <<Backquote, Backquote, Backquote>>
Stars == <<"*", "*">>
Newline == <<"\n">>
BR == <<"<", "b", "r", ">">>
STRONG == <<"<", "s", "t", "r", "o", "n", "g", ">">>
STRONG_END == <<"<", "/", "s", "t", "r", "o", "n", "g", ">">>

\* \w of the regular expression, over the characters the model uses.
WordChars == {"a", "b", "h", "i", "j", "k", "n", "o", "s", "x", "_"}

StartsAt(s, p, pat) ==
  p >= 1 /\ p + Len(pat) - 1 <= Len(s) /\ SubSeq(s, p, p + Len(pat) - 1) = pat

\* The 1-based position of the first pat at or after from, 0 when none.
RECURSIVE indexOf(_, _, _)
indexOf(s, pat, from) ==
  IF from > Len(s) THEN 0
  ELSE IF StartsAt(s, from, pat) THEN from
  ELSE indexOf(s, pat, from + 1)

includes(s, pat) == indexOf(s, pat, 1) # 0

\* The length of the longest run of \w characters that starts at q.
RECURSIVE WordRun(_, _)
WordRun(s, q) ==
  IF q <= Len(s) /\ s[q] \in WordChars THEN 1 + WordRun(s, q + 1) ELSE 0

NoMatch ==
  [found |-> FALSE, index |-> 0, all |-> <<>>, language |-> <<>>,
   code |-> <<>>, lastIndex |-> 0]

\* Mutant of codeBlockRegexAt: an opening fence that nothing closes takes
\* the rest of the content as its body.
codeBlockRegexAtOpenEnded(s, p) ==
  IF ~StartsAt(s, p, Fence) THEN NoMatch
  ELSE LET nl == p + 3 + WordRun(s, p + 3)
       IN IF ~StartsAt(s, nl, Newline) THEN NoMatch
          ELSE LET close == indexOf(s, Fence, nl + 1)
                   end == IF close = 0 THEN Len(s) ELSE close + 2
                   body == IF close = 0 THEN Len(s) ELSE close - 1
               IN [found |-> TRUE, index |-> p - 1,
                   all |-> SubSeq(s, p, end),
                   language |-> SubSeq(s, p + 3, nl - 1),
                   code |-> SubSeq(s, nl + 1, body),
                   lastIndex |-> end]

\* codeBlockRegex, /FENCE(\w+)?\n([\s\S]*?)FENCE/, tried at the 1-based
\* position p: the fence, the longest word run, a newline (a shorter run
\* cannot be followed by one), then the shortest body that a fence follows.
codeBlockRegexAt(s, p) ==
  IF ~StartsAt(s, p, Fence) THEN NoMatch
  ELSE LET nl == p + 3 + WordRun(s, p + 3)
       IN IF ~StartsAt(s, nl, Newline) THEN NoMatch
          ELSE LET close == indexOf(s, Fence, nl + 1)
               IN IF close = 0 THEN NoMatch
                  ELSE [found |-> TRUE, index |-> p - 1,
                        all |-> SubSeq(s, p, close + 2),
                        language |-> SubSeq(s, p + 3, nl - 1),
                        code |-> SubSeq(s, nl + 1, close - 1),
                        lastIndex |-> close + 2]

\* codeBlockRegex.exec(content) with the regex's lastIndex: the first
\* position at or after it where the expression matches.
RECURSIVE codeBlockRegexExec(_, _)
codeBlockRegexExec(s, lastIndex) ==
  IF lastIndex >= Len(s) THEN NoMatch
  ELSE LET match == codeBlockRegexAt(s, lastIndex + 1)
       IN IF match.found THEN match
          ELSE codeBlockRegexExec(s, lastIndex + 1)

RECURSIVE split(_)
\* code.split('\n')
split(s) ==
  LET i == indexOf(s, Newline, 1)
  IN IF i = 0 THEN <<s>>
     ELSE <<SubSeq(s, 1, i - 1)>> \o split(SubSeq(s, i + 1, Len(s)))

RECURSIVE replaceNewlines(_)
\* .replace(/\n/g, "<br>")
replaceNewlines(s) ==
  IF s = <<>> THEN <<>>
  ELSE (IF Head(s) = "\n" THEN BR ELSE <<Head(s)>>)
         \o replaceNewlines(Tail(s))

RECURSIVE replaceBold(_)
\* .replace(/\*\*(.*?)\*\*/g, "<strong>$1</strong>"), applied to a text
\* whose newlines are already replaced.
replaceBold(s) ==
  LET open == indexOf(s, Stars, 1)
      close == IF open = 0 THEN 0 ELSE indexOf(s, Stars, open + 2)
  IN IF close = 0 THEN s
     ELSE SubSeq(s, 1, open - 1) \o STRONG \o SubSeq(s, open + 2, close - 1)
            \o STRONG_END \o replaceBold(SubSeq(s, close + 2, Len(s)))

formattedText(textSegment) == replaceBold(replaceNewlines(textSegment))

Digits == <<"0", "1", "2", "3", "4", "5", "6", "7", "8", "9">>

RECURSIVE toString(_)
\* The decimal text of a natural number, as a template literal gives it.
toString(n) ==
  IF n < 10 THEN <<Digits[n + 1]>>
  ELSE toString(n \div 10) \o <<Digits[(n % 10) + 1]>>

\* The template literal ${messageIndex}-${blockCount}.
blockIdOf(messageIndex, blockCount) ==
  toString(messageIndex) \o <<"-">> \o toString(blockCount)

\* expandedBlocks[blockId] || false
isExpandedOf(blockId) ==
  IF blockId \in DOMAIN expandedBlocks THEN expandedBlocks[blockId] ELSE FALSE

\* A segment of the returned array: a span (kind "text") or a
\* CodeBlockContainer (kind "code"); the fields of the other kind are empty.
TextSegment(lastIndex, textSegment) ==
  [kind |-> "text", key |-> lastIndex, raw |-> textSegment,
   html |-> formattedText(textSegment), language |-> <<>>, code |-> <<>>,
   codeLines |-> <<>>, blockId |-> <<>>, isExpanded |-> FALSE,
   isTooLong |-> FALSE, hasExpandButton |-> FALSE]

CodeSegment(match, messageIndex, blockCount) ==
  LET codeLines == split(match.code)
      isTooLong == Len(codeLines) > MaxShownLines
  IN [kind |-> "code", key |-> match.index, raw |-> match.all, html |-> <<>>,
      language |-> IF Truthy(match.language) THEN match.language
                   ELSE <<"t", "e", "x", "t">>,
      code |-> match.code, codeLines |-> codeLines,
      blockId |-> blockIdOf(messageIndex, blockCount),
      isExpanded |-> isExpandedOf(blockIdOf(messageIndex, blockCount)),
      isTooLong |-> isTooLong, hasExpandButton |-> isTooLong]

\* "Add text before the code block"
textBefore(content, lastIndex, match) ==
  IF match.index > lastIndex
  THEN <<TextSegment(lastIndex, SubSeq(content, lastIndex + 1, match.index))>>
  ELSE <<>>

\* Mutant of remainingText: the text after the last block is dropped.
remainingTextDropped(content, lastIndex) == <<>>

\* "Add any remaining text after the last code block"
remainingText(content, lastIndex) ==
  IF lastIndex < Len(content)
  THEN <<TextSegment(lastIndex, SubSeq(content, lastIndex + 1, Len(content)))>>
  ELSE <<>>

RECURSIVE codeBlockSegments(_, _, _, _)
\* The while loop over codeBlockRegex.exec and the text after it.
codeBlockSegments(content, lastIndex, blockCount, messageIndex) ==
  LET match == codeBlockRegexExec(content, lastIndex)
  IN IF ~match.found THEN remainingText(content, lastIndex)
     ELSE textBefore(content, lastIndex, match)
            \o <<CodeSegment(match, messageIndex, blockCount)>>
            \o codeBlockSegments(content, match.lastIndex, blockCount + 1,
                                 messageIndex)

formatMessage(content, messageIndex) ==
  IF ~Truthy(content) THEN <<>>
  ELSE IF includes(content, Fence)
       THEN codeBlockSegments(content, 0, 0, messageIndex)
       ELSE <<TextSegment(0, content)>>

\* "Add typing indicator when waiting for response"
withTypingIndicator ==
  IF isWaitingForResponse /\ ~isReconnecting
  THEN Append(messages, TypingIndicator)
  ELSE messages

\* Mutant of withErrorMessage: the error entry is put in front.
withErrorMessageInFront(display) ==
  IF /\ Truthy(errorMessage)
     /\ ~\E i \in 1..Len(display) :
          display[i].type = "assistant" /\ display[i].content = errorMessage
  THEN <<AssistantMessage(errorMessage)>> \o display
  ELSE display

\* "Add error message if needed"
withErrorMessage(display) ==
  IF /\ Truthy(errorMessage)
     /\ ~\E i \in 1..Len(display) :
          display[i].type = "assistant" /\ display[i].content = errorMessage
  THEN Append(display, AssistantMessage(errorMessage))
  ELSE display

\* Mutant of displayMessages: the indicator is shown while reconnecting too.
displayMessagesWhileReconnecting ==
  withErrorMessage(IF isWaitingForResponse
                   THEN Append(messages, TypingIndicator)
                   ELSE messages)

displayMessages == withErrorMessage(withTypingIndicator)

Next ==
  \/ RunEffect
  \/ InitProbeSettles
  \/ IntervalTick
  \/ PollProbeSettles
  \/ SetInput
  \/ HandleKeyPress
  \/ ButtonClick
  \/ SendSettles
  \/ ResetSession

Spec == Init /\ [][Next]_vars

(***************************************************************************)
(* formatMessage on its own: MessageDisplay is given, once, a log of one   *)
(* message and renders it. The content is either a free text, put together from a  *)
(* few pieces, or a document: text, well-formed fenced blocks (an opener   *)
(* line with an optional language, the block's lines, a closer line)       *)
(* separated by newlines, text, and optionally an opening fence that       *)
(* nothing closes. lastOp keeps the document a content was made from.      *)
(***************************************************************************)
Pieces == {Fence, Newline, Stars, <<Backquote>>, <<"a">>, <<"<">>}

RECURSIVE Concat(_)
Concat(texts) ==
  IF texts = <<>> THEN <<>> ELSE Head(texts) \o Concat(Tail(texts))

PieceTexts ==
  UNION {{Concat(ps) : ps \in [1..n -> Pieces]} : n \in 0..MaxPieces}

LinesOf(n, line) == [i \in 1..n |-> line]

BlockLines ==
  {<<>>, <<<<"a">>, <<"b">>>>, <<<<"a">>, <<>>, <<"b">>>>,
   LinesOf(MaxShownLines, <<>>), LinesOf(MaxShownLines + 1, <<>>)}

Blocks == [language : {<<>>, <<"j", "s">>}, lines : BlockLines]

Documents ==
  [before : {<<>>, <<"a", "\n">>},
   blocks : UNION {[1..n -> Blocks] : n \in 0..MaxBlocks},
   after : {<<>>, <<"\n", "b">>},
   unterminated : {<<>>, Fence \o <<"j", "s", "\n", "a">>}]

\* A well-formed fenced block: opener line, the lines, closer.
BlockText(block) ==
  Fence \o block.language \o Newline
    \o Concat([i \in DOMAIN block.lines |-> block.lines[i] \o Newline])
    \o Fence

DocumentText(doc) ==
  doc.before
    \o Concat([i \in DOMAIN doc.blocks |->
                 BlockText(doc.blocks[i])
                   \o (IF i < Len(doc.blocks) THEN Newline ELSE <<>>)])
    \o doc.after \o doc.unterminated

RendersMessage(content, how, made) ==
  /\ messages = <<>>
  /\ messages' = <<AssistantMessage(content)>>
  /\ lastOp' = OpWith("render", how, <<>>, made)
  /\ UNCHANGED <<isConnected, isWaitingForResponse, isReconnecting,
                 connectionError, chatClientRef, input, effectDeps,
                 healthCheckInterval, initProbes, pollProbes, sendsInFlight,
                 sessionId, localStorage, initSettled, viewVars>>

RenderFreeText == \E text \in PieceTexts : RendersMessage(text, "text", "")

RenderDocument ==
  \E doc \in Documents : RendersMessage(DocumentText(doc), "document", doc)

ParserNext == RenderFreeText \/ RenderDocument

ParserInit == Init /\ localStorage = NULL

ParserSpec == ParserInit /\ [][ParserNext]_vars

(***************************************************************************)
(* MessageDisplay on its own: a parent gives it any props (it appends to   *)
(* or replaces the log, changes isWaitingForResponse, isReconnecting and   *)
(* connectionStatus), its effect on [connectionStatus] sets errorMessage   *)
(* after the render that changed the prop, and the user clicks the expand  *)
(* buttons that are rendered.                                              *)
(***************************************************************************)
\* A message with a block of more than MaxShownLines lines and a short one.
TwoBlocks ==
  BlockText([language |-> <<"j", "s">>,
             lines |-> LinesOf(MaxShownLines + 1, <<>>)])
    \o Newline \o BlockText([language |-> <<>>, lines |-> <<<<"a">>>>])

ViewMessages ==
  {UserMessage(<<"h", "i">>), AssistantMessage(ERROR_MESSAGES.GENERAL),
   AssistantMessage(TwoBlocks)}

ConnectionStatuses == {UNDEFINED, "error", "disconnected", "timeout"}

ViewInit == Init /\ localStorage = NULL

appFrame ==
  UNCHANGED <<isConnected, connectionError, chatClientRef, input, effectDeps,
              healthCheckInterval, initProbes, pollProbes, sendsInFlight,
              sessionId, localStorage, initSettled>>

\* displayMessages.map: what is rendered for the entry at 1-based place i,
\* no segments for the typing indicator.
segmentsOf(i) ==
  IF displayMessages[i].type = "typing" THEN <<>>
  ELSE formatMessage(displayMessages[i].content, i - 1)

IsCode(segment) == segment.kind = "code"
IsText(segment) == segment.kind = "text"

codeSegmentsOf(i) == SelectSeq(segmentsOf(i), IsCode)

\* The ids under which the code blocks of the entry at place i are rendered.
blockIdsOf(i) ==
  LET code == codeSegmentsOf(i)
  IN [k \in DOMAIN code |-> code[k].blockId] \o <<>>

\* History: the ids the code blocks of every entry of the log are rendered
\* with, kept in lastOp.detail by the steps of the view so that a render
\* can be compared with the one before it.
renderedBlockIds == [i \in DOMAIN messages |-> blockIdsOf(i)] \o <<>>

ViewOp(name, arg, text) == OpWith(name, arg, text, renderedBlockIds)

PropsAppendMessage ==
  \E message \in ViewMessages :
    /\ Len(messages) < MaxViewLog
    /\ messages' = Append(messages, message)
    /\ lastOp' = ViewOp("props", "append", <<>>)
    /\ appFrame
    /\ UNCHANGED <<isWaitingForResponse, isReconnecting, viewVars>>

PropsWaiting ==
  /\ isWaitingForResponse' = ~isWaitingForResponse
  /\ lastOp' = ViewOp("props", "isWaitingForResponse", <<>>)
  /\ appFrame
  /\ UNCHANGED <<messages, isReconnecting, viewVars>>

PropsReconnecting ==
  /\ isReconnecting' = ~isReconnecting
  /\ lastOp' = ViewOp("props", "isReconnecting", <<>>)
  /\ appFrame
  /\ UNCHANGED <<messages, isWaitingForResponse, viewVars>>

PropsConnectionStatus ==
  \E status \in ConnectionStatuses :
    /\ status # connectionStatus
    /\ connectionStatus' = status
    /\ lastOp' = ViewOp("props", "connectionStatus", <<>>)
    /\ appFrame
    /\ UNCHANGED <<messages, isWaitingForResponse, isReconnecting,
                   errorMessage, expandedBlocks>>

\* useEffect on [connectionStatus]
ErrorMessageEffect ==
  /\ errorMessage # errorMessageFor(connectionStatus)
  /\ errorMessage' = errorMessageFor(connectionStatus)
  /\ lastOp' = ViewOp("errorMessageEffect", "", <<>>)
  /\ appFrame
  /\ UNCHANGED <<messages, isWaitingForResponse, isReconnecting,
                 connectionStatus, expandedBlocks>>

\* Mutant of toggleCodeBlock: the entries of the other blocks are not kept.
toggleCodeBlockAlone(blockId) ==
  [b \in {blockId} |-> ~isExpandedOf(blockId)]

\* setExpandedBlocks(prev => ({...prev, [blockId]: !prev[blockId]}))
toggleCodeBlock(blockId) ==
  [b \in DOMAIN expandedBlocks \cup {blockId} |->
     IF b = blockId THEN ~isExpandedOf(blockId) ELSE expandedBlocks[b]]

\* The blockIds of the expand buttons that are rendered.
ExpandButtons ==
  UNION {LET segs == segmentsOf(i)
         IN {segs[k].blockId :
               k \in {k \in DOMAIN segs : segs[k].hasExpandButton}} :
         i \in DOMAIN displayMessages}

\* A click on an ExpandButton.
ToggleCodeBlock ==
  \E blockId \in ExpandButtons :
    /\ expandedBlocks' = toggleCodeBlock(blockId)
    /\ lastOp' = ViewOp("toggle", "", blockId)
    /\ appFrame
    /\ UNCHANGED <<messages, isWaitingForResponse, isReconnecting,
                   connectionStatus, errorMessage>>

ViewNext ==
  \/ PropsAppendMessage
  \/ PropsWaiting
  \/ PropsReconnecting
  \/ PropsConnectionStatus
  \/ ErrorMessageEffect
  \/ ToggleCodeBlock

ViewSpec == ViewInit /\ [][ViewNext]_vars

(***************************************************************************)
(* Scheduling. React runs a pending effect after the render that changed   *)
(* its dependencies, a health request ends (checkHealth returns on every   *)
(* path), and a send ends (answer, failure, or the abort signal of the     *)
(* configured timeout), and the timer of an active interval fires. User    *)
(* gestures may or may not come.                                           *)
(***************************************************************************)
FairSpec ==
  /\ Init /\ [][Next]_vars
  /\ SF_vars(RunEffect)
  /\ WF_vars(IntervalTick)
  /\ WF_vars(InitProbeSettles)
  /\ WF_vars(PollProbeSettles)
  /\ WF_vars(SendSettles)

(***************************************************************************)
(* Steps, as the history variable lastOp shows them. Every handler sets    *)
(* lastOp, so a step that is not a stuttering step and ends with lastOp of *)
(* a handler is a step of that handler.                                    *)
(***************************************************************************)
Gestures == {"keyPress", "click"}
SubmissionStep == lastOp'.op \in Gestures
SendSettledStep == lastOp'.op = "send"
SendSucceededStep == SendSettledStep /\ lastOp'.arg = "reply"
SendFailedStep == SendSettledStep /\ lastOp'.arg # "reply"
InitProbeSettledStep == lastOp'.op = "initProbe"
PollProbeSettledStep == lastOp'.op = "pollProbe"

ErrorStrings ==
  {ERROR_MESSAGES.GENERAL, ERROR_MESSAGES.DISCONNECTED, ERROR_MESSAGES.TIMEOUT}

IsPrefix(s, t) == Len(s) <= Len(t) /\ SubSeq(t, 1, Len(s)) = s

C2_AtMostOnePendingSend ==
  [][/\ sendsInFlight' <= 1
     /\ SubmissionStep /\ isWaitingForResponse
          => UNCHANGED <<messages, sendsInFlight, isWaitingForResponse>>]_vars

C2_Witness ==
  /\ lastOp = Op("keyPress", "disabled", <<>>)
  /\ isWaitingForResponse
  /\ sendsInFlight = 1
  /\ isConnected
  /\ ~isReconnecting

C5_TimeoutSelectsTimeoutWording ==
  [][SendSettledStep /\ lastOp'.arg = "timeout"
       => /\ messages'[Len(messages')] =
               AssistantMessage(ERROR_MESSAGES.TIMEOUT)
          /\ connectionError' = "timeout"]_vars

(***************************************************************************)
(* C6. No two health probes are in flight at the same time.                *)
(***************************************************************************)
C6_NoConcurrentProbes == ProbesInFlight <= 1

(***************************************************************************)
(* C7. Once an initialization probe has settled, isReconnecting never      *)
(* becomes true again.                                                     *)
(***************************************************************************)
C7_ReconnectingOnlyAtInitialization ==
  [][initSettled => (isReconnecting' => isReconnecting)]_vars

(***************************************************************************)
(* C8. The log is append-only: every step leaves the log as it was or      *)
(* extends it.                                                             *)
(***************************************************************************)
C8_LogAppendOnly == [][IsPrefix(messages, messages')]_vars

(***************************************************************************)
(* C9. A settled health probe, polled or of initialization, changes        *)
(* neither the pending flag nor the log.                                   *)
(***************************************************************************)
C9_ProbesLeaveLogAndPending ==
  [][InitProbeSettledStep \/ PollProbeSettledStep
       => UNCHANGED <<messages, isWaitingForResponse>>]_vars

(***************************************************************************)
(* C9, amended. A settled health probe never changes the pending flag; a   *)
(* polled probe, and a probe of initialization that did not return ok,     *)
(* never change the log; the one change of the log a probe makes is that   *)
(* a probe of initialization that returned ok sets the log to a single     *)
(* welcome message.                                                        *)
(***************************************************************************)
C9_ProbesOnlyAddWelcome ==
  [][/\ InitProbeSettledStep \/ PollProbeSettledStep
          => isWaitingForResponse' = isWaitingForResponse
     /\ PollProbeSettledStep => messages' = messages
     /\ InitProbeSettledStep /\ messages' # messages
          => /\ lastOp'.arg = "ok"
             /\ \E w \in WELCOME_MESSAGES :
                  messages' = <<AssistantMessage(w)>>]_vars

C9_Witness ==
  /\ lastOp.op = "pollProbe"
  /\ lastOp.arg = "error"
  /\ isWaitingForResponse
  /\ sendsInFlight = 1
  /\ ~isConnected
  /\ messages # <<>>
  /\ messages[Len(messages)].type = "user"

(***************************************************************************)
(* C10. A settled poll whose status equals the current connectivity (ok    *)
(* while isConnected, not ok while not isConnected) changes none of        *)
(* isConnected, isReconnecting and connectionError.                        *)
(***************************************************************************)
C10_PollingIdempotent ==
  [][PollProbeSettledStep /\ (lastOp'.arg = "ok" <=> isConnected)
       => UNCHANGED <<isConnected, isReconnecting, connectionError>>]_vars

(***************************************************************************)
(* C11. A settled poll that reports an error while isConnected makes       *)
(* isConnected false and sets connectionError, and a submission made       *)
(* while not connected leaves the log as it is; a settled poll that        *)
(* reports ok while not isConnected makes isConnected true.                *)
(***************************************************************************)
C11_PolledStatusSetsConnectivity ==
  [][/\ PollProbeSettledStep /\ lastOp'.arg = "error" /\ isConnected
          => ~isConnected' /\ connectionError' # NULL
     /\ PollProbeSettledStep /\ lastOp'.arg = "ok" /\ ~isConnected
          => isConnected'
     /\ SubmissionStep /\ ~isConnected => messages' = messages]_vars

(***************************************************************************)
(* C12. A settled initialization probe decides the connection: ok makes    *)
(* isConnected true and connectionError null, anything else (an error      *)
(* status or a failed request) makes isConnected false and                 *)
(* connectionError 'error'; either way isReconnecting is false after it,   *)
(* and the input is enabled after it only if isConnected.                  *)
(***************************************************************************)
C12_InitializeResolvesByProbe ==
  [][InitProbeSettledStep
       => /\ IF lastOp'.arg = "ok"
             THEN isConnected' /\ connectionError' = NULL
             ELSE ~isConnected' /\ connectionError' = "error"
          /\ ~isReconnecting'
          /\ ~isDisabled' => isConnected']_vars

C12_Witness ==
  /\ lastOp.op = "initProbe"
  /\ lastOp.detail = "network"
  /\ ~isConnected
  /\ connectionError = "error"
  /\ ~isReconnecting
  /\ isDisabled

C14_PendingSendResolves == isWaitingForResponse ~> ~isWaitingForResponse

C14_Witness ==
  /\ lastOp.op = "send"
  /\ lastOp.arg = "timeout"
  /\ ~isWaitingForResponse
  /\ sendsInFlight = 0

(***************************************************************************)
(* C15. If from some point on no settled health probe reports an error,    *)
(* then again and again the App is in a state with a client, connected,    *)
(* not reconnecting and not waiting, where a non-blank submission is       *)
(* accepted and sent.                                                      *)
(***************************************************************************)
ProbeFailed == lastOp.op \in {"initProbe", "pollProbe"} /\ lastOp.arg = "error"

CanSubmit == ~isDisabled /\ ~sendMessageRejects

C15_RecoversWhenProbesSucceed == <>[]~ProbeFailed => []<>CanSubmit

C15_Witness ==
  /\ CanSubmit
  /\ lastOp.op = "pollProbe"
  /\ lastOp.arg = "ok"
  /\ Truthy(Trim(input))
  /\ \E i \in 1..Len(messages) :
       messages[i] = AssistantMessage(ERROR_MESSAGES.GENERAL)

(***************************************************************************)
(* C16. What MessageDisplay renders is the log in order, followed by one   *)
(* typing indicator exactly when isWaitingForResponse and not              *)
(* isReconnecting; the log holds no typing entry, and none is rendered     *)
(* when isWaitingForResponse is false.                                     *)
(***************************************************************************)
C16_ViewIsLogPlusTyping ==
  LET typing == isWaitingForResponse /\ ~isReconnecting
      n == Len(messages)
  IN /\ Len(displayMessages) = n + (IF typing THEN 1 ELSE 0)
     /\ \A i \in 1..n : /\ displayMessages[i] = messages[i]
                         /\ messages[i].type # "typing"
     /\ typing => displayMessages[n + 1].type = "typing"
     /\ ~isWaitingForResponse
          => \A i \in 1..Len(displayMessages) :
               displayMessages[i].type # "typing"

C16_Witness ==
  /\ isWaitingForResponse
  /\ isReconnecting
  /\ messages # <<>>
  /\ displayMessages = messages

(***************************************************************************)
(* C17. When a send settles with a reply that carries a session_id, the    *)
(* client's sessionId and the stored 'chat_session_id' both become that    *)
(* id; when it settles any other way both stay as they were.               *)
(***************************************************************************)
C17_SendRecordsToken ==
  [][SendSettledStep
       => IF lastOp'.detail # NULL
          THEN sessionId' = lastOp'.detail /\ localStorage' = lastOp'.detail
          ELSE UNCHANGED <<sessionId, localStorage>>]_vars

C17_Witness ==
  /\ lastOp.op = "send"
  /\ lastOp.detail = "s2"
  /\ sessionId = "s2"
  /\ localStorage = "s2"

(***************************************************************************)
(* C18. resetSession makes the client's sessionId and the stored           *)
(* 'chat_session_id' null and changes nothing of the App or the input.     *)
(***************************************************************************)
C18_ResetClearsOnlyToken ==
  [][lastOp'.op = "reset"
       => /\ sessionId' = NULL
          /\ localStorage' = NULL
          /\ UNCHANGED <<messages, isConnected, isWaitingForResponse,
                         isReconnecting, connectionError, chatClientRef,
                         input, sendsInFlight>>]_vars

C18_Witness ==
  /\ lastOp = Op("reset", "token", <<>>)
  /\ sessionId = NULL
  /\ localStorage = NULL
  /\ isConnected
  /\ isWaitingForResponse
  /\ messages # <<>>

(***************************************************************************)
(* C19. The client's sessionId goes from a token to null only in a         *)
(* resetSession step.                                                      *)
(***************************************************************************)
C19_TokenClearedOnlyByReset ==
  [][sessionId # NULL /\ sessionId' = NULL => lastOp'.op = "reset"]_vars

C19_Witness ==
  /\ lastOp.op = "send"
  /\ lastOp.arg \in {"reply", "empty"}
  /\ lastOp.detail = NULL
  /\ sessionId # NULL

(***************************************************************************)
(* C20. In every state, a health request that fails (a non-2xx answer or   *)
(* a transport failure) gives the initialization and the interval          *)
(* callback the same isConnected, connectionError and log as an answer     *)
(* of {status:'error'}.                                                    *)
(***************************************************************************)
C20_FailedProbeIsErrorStatus ==
  \A outcome \in {"http", "network"} :
    /\ \A closureConnected \in BOOLEAN :
         intervalResume(closureConnected, checkHealth(outcome))
           = intervalResume(closureConnected, checkHealth("error"))
    /\ \A noMessages \in BOOLEAN, w \in WELCOME_MESSAGES :
         initializeClientResume(noMessages, checkHealth(outcome), w)
           = initializeClientResume(noMessages, checkHealth("error"), w)

C20_Witness ==
  /\ lastOp.op = "pollProbe"
  /\ lastOp.detail = "network"
  /\ ~isConnected
  /\ connectionError = "disconnected"

(***************************************************************************)
(* What formatMessage returns for the messages of the view.                *)
(***************************************************************************)
RenderedDocument == lastOp.op = "render" /\ lastOp.arg = "document"

IsSuffix(s, t) ==
  Len(s) <= Len(t) /\ SubSeq(t, Len(t) - Len(s) + 1, Len(t)) = s

(***************************************************************************)
(* C21. Every assistant entry of the log and of the view has as content a  *)
(* reply content of the service, one of the three ERROR_MESSAGES or a      *)
(* welcome message: the text of a transport error is never shown.          *)
(***************************************************************************)
FixedStrings ==
  {ERROR_MESSAGES.GENERAL, ERROR_MESSAGES.DISCONNECTED, ERROR_MESSAGES.TIMEOUT}
    \cup WELCOME_MESSAGES

ShowsNoRawError(entries) ==
  \A i \in DOMAIN entries :
    entries[i].type = "assistant"
      => entries[i].content \in ReplyContents \cup FixedStrings

C21_NoRawErrorSurfaced ==
  ShowsNoRawError(messages) /\ ShowsNoRawError(displayMessages)

C21_Witness ==
  /\ lastOp.op = "send"
  /\ lastOp.arg = "network"
  /\ messages[Len(messages)] = AssistantMessage(ERROR_MESSAGES.GENERAL)
  /\ displayMessages[Len(displayMessages)]
       = AssistantMessage(ERROR_MESSAGES.GENERAL)

(***************************************************************************)
(* C22. When errorMessage is set, the error entry is appended to the view  *)
(* exactly when the entry the view would otherwise end with is not an      *)
(* assistant entry with that very text.                                    *)
(***************************************************************************)
C22_ErrorEntryDedupedAgainstLastEntry ==
  Truthy(errorMessage)
    => LET display == withTypingIndicator
           last == display[Len(display)]
           trails == /\ display # <<>>
                     /\ last.type = "assistant"
                     /\ last.content = errorMessage
       IN (Len(displayMessages) = Len(display) + 1) <=> ~trails

(***************************************************************************)
(* C23. A submission of an input that is empty or holds only white space   *)
(* appends nothing to the log, leaves the pending flag and the sends in    *)
(* flight as they were and leaves the input as it was.                     *)
(***************************************************************************)
IsBlank(s) == \A k \in DOMAIN s : IsSpace(s[k])

C23_BlankSubmissionIsNoOp ==
  [][SubmissionStep /\ IsBlank(input)
       => UNCHANGED <<messages, isWaitingForResponse, sendsInFlight,
                      input>>]_vars

C23_Witness ==
  /\ lastOp.op = "keyPress"
  /\ lastOp.arg = "blank"
  /\ input = <<" ">>
  /\ isConnected
  /\ ~isWaitingForResponse
  /\ sendsInFlight = 0

(***************************************************************************)
(* C24. A document of N well-formed fenced blocks and no unclosed fence    *)
(* is formatted into N code segments in order, each with the block's       *)
(* language (text when none) and with codeLines equal to the block's       *)
(* lines.                                                                  *)
(***************************************************************************)
C24_CodeLinesAreTheBlockLines ==
  RenderedDocument /\ lastOp.detail.unterminated = <<>>
    => LET doc == lastOp.detail
           code == codeSegmentsOf(1)
       IN /\ Len(code) = Len(doc.blocks)
          /\ \A k \in 1..Len(code) :
               /\ code[k].codeLines = doc.blocks[k].lines
               /\ code[k].language =
                    (IF doc.blocks[k].language = <<>>
                     THEN <<"t", "e", "x", "t">>
                     ELSE doc.blocks[k].language)

(***************************************************************************)
(* C25. A code segment is too long, and has an expand button, exactly      *)
(* when its block has more than MaxShownLines lines.                       *)
(***************************************************************************)
C25_TooLongIffMoreThanTenLines ==
  RenderedDocument /\ lastOp.detail.unterminated = <<>>
    => LET doc == lastOp.detail
           code == codeSegmentsOf(1)
       IN /\ Len(code) = Len(doc.blocks)
          /\ \A k \in 1..Len(code) :
               /\ code[k].isTooLong
                    <=> Len(doc.blocks[k].lines) > MaxShownLines
               /\ code[k].hasExpandButton = code[k].isTooLong

(***************************************************************************)
(* C26. The segments of a message tile its content from left to right:     *)
(* the first starts at 0, each starts where the one before ends, the last  *)
(* ends at the end, each text segment holds the content at its place and   *)
(* each code segment the matched region at its place, and no text segment  *)
(* holds a fenced region. So the text segments in order are the content    *)
(* without the matched regions.                                            *)
(***************************************************************************)
C26_SegmentsTileTheContent ==
  \A i \in 1..Len(messages) :
    LET content == messages[i].content
        segs == segmentsOf(i)
        n == Len(segs)
    IN /\ Concat([k \in 1..n |-> segs[k].raw]) = content
       /\ \A k \in 1..n :
            /\ segs[k].raw # <<>>
            /\ segs[k].key = Len(Concat([j \in 1..(k - 1) |-> segs[j].raw]))
            /\ IsCode(segs[k])
                 => codeBlockRegexAt(content, segs[k].key + 1).found
            /\ IsText(segs[k])
                 => ~codeBlockRegexExec(segs[k].raw, 0).found
       /\ \A k \in 1..(n - 1) : ~(IsText(segs[k]) /\ IsText(segs[k + 1]))

C26_Witness ==
  /\ RenderedDocument
  /\ Len(segmentsOf(1)) = 5
  /\ IsText(segmentsOf(1)[1])
  /\ IsCode(segmentsOf(1)[2])
  /\ IsText(segmentsOf(1)[3])
  /\ IsCode(segmentsOf(1)[4])
  /\ IsText(segmentsOf(1)[5])

(***************************************************************************)
(* C27. A document that ends with an opening fence that nothing closes is  *)
(* formatted into as many code segments as it has well-formed blocks, and  *)
(* its last segment is a text segment that ends with the opening fence     *)
(* and everything after it.                                                *)
(***************************************************************************)
C27_UnclosedFenceIsText ==
  RenderedDocument /\ lastOp.detail.unterminated # <<>>
    => LET doc == lastOp.detail
           segs == segmentsOf(1)
       IN /\ Len(codeSegmentsOf(1)) = Len(doc.blocks)
          /\ segs # <<>>
          /\ IsText(segs[Len(segs)])
          /\ IsSuffix(doc.after \o doc.unterminated, segs[Len(segs)].raw)

C27_Witness ==
  /\ RenderedDocument
  /\ lastOp.detail.unterminated # <<>>
  /\ Len(lastOp.detail.blocks) = 2
  /\ Len(codeSegmentsOf(1)) = 2
  /\ IsText(segmentsOf(1)[Len(segmentsOf(1))])

(***************************************************************************)
(* C28. The blockIds of the view are pairwise different, and after every   *)
(* re-render of the view under new props or state (an append, a change of  *)
(* isWaitingForResponse or isReconnecting, the typing entry or the error   *)
(* entry coming or going, a toggle) every message of the log has the       *)
(* blockIds it was rendered with before the step.                          *)
(***************************************************************************)
\* The blockIds of the whole view, message after message.
viewBlockIds ==
  Concat([i \in DOMAIN displayMessages |-> blockIdsOf(i)])

BlockIdsUnique ==
  LET ids == viewBlockIds
  IN \A a, b \in DOMAIN ids : ids[a] = ids[b] => a = b

RerenderedView == lastOp.op \in {"props", "errorMessageEffect", "toggle"}

C28_BlockIdsUniqueAndStable ==
  /\ BlockIdsUnique
  /\ RerenderedView
       => \A i \in DOMAIN lastOp.detail : blockIdsOf(i) = lastOp.detail[i]

C28_Witness ==
  /\ Len(messages) = 2
  /\ Len(displayMessages) = 4
  /\ displayMessages[3].type = "typing"
  /\ Len(blockIdsOf(1)) = 2
  /\ Len(blockIdsOf(2)) = 2
  /\ lastOp.op = "errorMessageEffect"
  /\ blockIdsOf(2)[1] \in DOMAIN expandedBlocks

(***************************************************************************)
(* C29. In the markup of every text segment each opening angle bracket     *)
(* starts one of the tags the formatting writes: br, strong, /strong.      *)
(***************************************************************************)
C29_TextMarkupHasOnlyOwnTags ==
  \A i \in 1..Len(messages) :
    \A k \in 1..Len(segmentsOf(i)) :
      LET html == segmentsOf(i)[k].html
      IN \A p \in 1..Len(html) :
           html[p] = "<"
             => \/ StartsAt(html, p, BR)
                \/ StartsAt(html, p, STRONG)
                \/ StartsAt(html, p, STRONG_END)

(***************************************************************************)
(* C30. The request of every accepted submission carries the submitted     *)
(* text and the sessionId the client holds at the submission (null when no *)
(* token was issued or after a reset), and the step that creates the       *)
(* client gives it the stored 'chat_session_id'.                           *)
(***************************************************************************)
AcceptedSubmissionStep == SubmissionStep /\ lastOp'.arg = "sent"

ClientCreatedStep == ~chatClientRef /\ chatClientRef'

C30_RequestCarriesCurrentToken ==
  [][/\ AcceptedSubmissionStep
          => lastOp'.detail = [message |-> input, session_id |-> sessionId]
     /\ ClientCreatedStep => sessionId' = localStorage]_vars

C30_Witness ==
  /\ lastOp.op \in Gestures
  /\ lastOp.arg = "sent"
  /\ lastOp.detail.session_id = "s1"
  /\ sessionId = "s1"
  /\ localStorage = "s1"

(***************************************************************************)
(* C31. A click on the ExpandButton of block b flips what b is rendered    *)
(* with (expandedBlocks[b] || false) and leaves the entry of every other   *)
(* blockId as it was, present or absent; two toggles of b therefore give   *)
(* b the expanded state it had.                                            *)
(***************************************************************************)
ToggleStep == lastOp'.op = "toggle"

ExpandedIn(blocks, b) == IF b \in DOMAIN blocks THEN blocks[b] ELSE FALSE

C31_ToggleFlipsOnlyThatBlock ==
  [][ToggleStep
       => LET b == lastOp'.text
          IN /\ ExpandedIn(expandedBlocks', b) = ~ExpandedIn(expandedBlocks, b)
             /\ DOMAIN expandedBlocks' = DOMAIN expandedBlocks \cup {b}
             /\ \A c \in DOMAIN expandedBlocks \ {b} :
                  expandedBlocks'[c] = expandedBlocks[c]]_vars

\* Block 0-0 was toggled twice and is collapsed again; block 1-0, toggled
\* once before, is still expanded.
C31_Witness ==
  /\ lastOp.op = "toggle"
  /\ lastOp.text = blockIdOf(0, 0)
  /\ DOMAIN expandedBlocks = {blockIdOf(0, 0), blockIdOf(1, 0)}
  /\ ~expandedBlocks[blockIdOf(0, 0)]
  /\ expandedBlocks[blockIdOf(1, 0)]

(***************************************************************************)
(* C32. A tick of the interval starts a probe only when isReconnecting is  *)
(* false when the tick fires, and no tick starts a probe while a probe of  *)
(* initializeClient is in flight.                                          *)
(***************************************************************************)
TickProbeStep == lastOp'.op = "tick" /\ lastOp'.arg = "probe"

InitProbesInFlight == initProbes[TRUE] + initProbes[FALSE]

C32_TickProbesOnlyWhenNotReconnecting ==
  [][TickProbeStep => ~isReconnecting /\ InitProbesInFlight = 0]_vars

(***************************************************************************)
(* C33. Once the client exists, its sessionId is the value stored under    *)
(* 'chat_session_id' (both null or both the same id).                      *)
(***************************************************************************)
C33_TokenEqualsStoredValue == chatClientRef => sessionId = localStorage

\* The client has just been created over the token of an earlier run.
C33_Witness ==
  /\ chatClientRef
  /\ lastOp.op = "effect"
  /\ ~initSettled
  /\ sessionId = "s1"
  /\ localStorage = "s1"

EndsWithUserMessage ==
  messages # <<>> /\ messages[Len(messages)].type = "user"

C35_PendingIffLastIsUser ==
  /\ isWaitingForResponse <=> EndsWithUserMessage
  /\ \A i \in 1..(Len(messages) - 1) :
       ~(messages[i].type = "user" /\ messages[i + 1].type = "user")

(***************************************************************************)
(* C36. A welcome message stands only at the head of the log, and the step *)
(* that puts one there is the settling of an initialization probe that     *)
(* returned ok, taken when the log is empty.                               *)
(***************************************************************************)
IsWelcome(message) ==
  message.type = "assistant" /\ message.content \in WELCOME_MESSAGES

\* The step sets the log to one welcome message (a step that writes the
\* log it found is no change of the log).
WelcomeInsertedStep ==
  /\ messages' # messages
  /\ Len(messages') = 1
  /\ IsWelcome(messages'[1])

C36_WelcomeOnlyIntoEmptyLog ==
  [][/\ \A i \in 2..Len(messages') : ~IsWelcome(messages'[i])
     /\ WelcomeInsertedStep
          => /\ messages = <<>>
             /\ InitProbeSettledStep
             /\ lastOp'.arg = "ok"]_vars

(***************************************************************************)
(* C37. The interval that is active is the one the last run of the effect  *)
(* created, and what its callback reads as isConnected and isReconnecting, *)
(* when it fires and after the await of its probe, are the current values. *)
(* healthCheckInterval holds the one interval that is not cleared: the     *)
(* cleanup of a run clears the interval of the run before.                 *)
(***************************************************************************)
C37_TimerReadsCurrentValues ==
  /\ healthCheckInterval.active
       => /\ healthCheckInterval.isConnected = isConnected
          /\ healthCheckInterval.isReconnecting = isReconnecting
  /\ \A closureConnected \in BOOLEAN :
       pollProbes[closureConnected] > 0 => closureConnected = isConnected

====
